---- MODULE Spec2Model ----
(***************************************************************************)
(* SolinkJsonFormat (src/src/lib.rs): a tracing FormatEvent that renders   *)
(* one event and its chain of spans as one flat JSON object per line.      *)
(*                                                                         *)
(* The byte buffer `s` is modelled as the sequence of JSON fragments that  *)
(* serde_json appends to it: the opening brace, one fragment per map       *)
(* entry, the closing brace.  A span's FormattedFields text is modelled as *)
(* the sequence of its lexical tokens, and serde_json::from_str as the     *)
(* function from such a text to a Value (or a parse error).                *)
(***************************************************************************)
EXTENDS Integers, Sequences, FiniteSets, TLC

\* Longest chain of spans the registry hands to one format_event call.
MaxDepth == 2

Threads == {1, 2}

(***************************************************************************)
(* JSON fragments                                                          *)
(***************************************************************************)
Open == <<"{">>
Close == <<"}">>
LBracket == <<"[">>
RBracket == <<"]">>
Junk == <<"junk">>
Pair(k, v) == <<"pair", k, v>>
Lit(v) == <<"lit", v>>
Entry(k, v) == <<"entry", k, v>>
\* what writeln!(writer) hands to the writer
Terminator == << <<"\n">> >>

\* serde_json's encoding of a &str: the text between double quotes
Quote(x) == "\"" \o x \o "\""

(***************************************************************************)
(* SolinkJsonFormat::new / with_timestamp / with_target                    *)
(***************************************************************************)
new == [add_timestamp |-> TRUE, add_target |-> TRUE]

with_timestamp(self, add_timestamp) == [self EXCEPT !.add_timestamp = add_timestamp]

\* mutant: the builder starts again from the defaults
with_target_FromNew(self, add_target) ==
    [add_timestamp |-> TRUE, add_target |-> add_target]

with_target(self, add_target) == [self EXCEPT !.add_target = add_target]

(***************************************************************************)
(* serde_json::Map<String, Value> in serde_json's default build: a         *)
(* BTreeMap, i.e. entries kept in ascending key order, one per key.        *)
(* Modelled as a sequence of <<key, value>> with strictly ascending keys.  *)
(***************************************************************************)
\* position of a key in the byte order of strings, for the keys the model uses
KeyRank(k) ==
    CASE k = "a" -> 1
      [] k = "x" -> 2
      [] k = "y" -> 3
      [] OTHER -> 4

\* mutant: a map that keeps insertion order instead of key order
MapInsert_Append(m, k, v) ==
    IF \E i \in 1..Len(m) : m[i][1] = k
    THEN [i \in 1..Len(m) |-> IF m[i][1] = k THEN <<k, v>> ELSE m[i]]
    ELSE Append(m, <<k, v>>)

\* BTreeMap::insert: replaces the value of an existing key, else inserts in order
MapInsert(m, k, v) ==
    SelectSeq(m, LAMBDA e : KeyRank(e[1]) < KeyRank(k))
        \o << <<k, v>> >>
        \o SelectSeq(m, LAMBDA e : KeyRank(e[1]) > KeyRank(k))

\* the object visitor of Value's Deserialize: inserts the pairs in text order
RECURSIVE MapFromPairs(_)
MapFromPairs(q) ==
    IF q = <<>> THEN <<>>
    ELSE LET last == q[Len(q)]
         IN MapInsert(MapFromPairs(SubSeq(q, 1, Len(q) - 1)), last[2], last[3])

Inner(data) == SubSeq(data, 2, Len(data) - 1)

AllOf(q, kind) == \A i \in 1..Len(q) : q[i][1] = kind

\* serde_json::from_str::<serde_json::Value>(data)
from_str(data) ==
    IF Len(data) >= 2 /\ data[1] = Open /\ data[Len(data)] = Close
                      /\ AllOf(Inner(data), "pair")
    THEN [tag |-> "Object", map |-> MapFromPairs(Inner(data))]
    ELSE IF Len(data) >= 2 /\ data[1] = LBracket /\ data[Len(data)] = RBracket
                           /\ AllOf(Inner(data), "lit")
    THEN [tag |-> "Array", map |-> <<>>]
    ELSE IF Len(data) = 1 /\ data[1][1] = "lit"
    THEN [tag |-> "Scalar", map |-> <<>>]
    ELSE [tag |-> "Err", map |-> <<>>]

\* `for field in fields { serializer_map.serialize_entry(&field.0, &field.1) }`
SerializeFields(buf, fields) ==
    buf \o [i \in 1..Len(fields) |-> Entry(fields[i][1], fields[i][2])]

\* mutant: the span key is written after the innermost span's fields
SerializeScope_SpanLast(buf, index, span) ==
    LET fields == IF span.ext # <<>> /\ from_str(span.ext[1]).tag = "Object"
                  THEN from_str(span.ext[1]).map
                  ELSE <<>>
        written == SerializeFields(buf, fields)
    IN  [ok |-> span.ext = <<>> \/ from_str(span.ext[1]).tag # "Err",
         buf |-> IF index = 0
                 THEN Append(written, Entry("span", Quote(span.name)))
                 ELSE written]

\* mutant: a key that is already in the buffer is not written again
SerializeScope_Dedup(buf, index, span) ==
    LET withSpan == IF index = 0
                    THEN Append(buf, Entry("span", Quote(span.name)))
                    ELSE buf
        fields == IF span.ext # <<>> /\ from_str(span.ext[1]).tag = "Object"
                  THEN from_str(span.ext[1]).map
                  ELSE <<>>
        fresh == SelectSeq(fields,
                           LAMBDA f : \A i \in 1..Len(withSpan) :
                                         withSpan[i][1] = "entry" => withSpan[i][2] # f[1])
    IN  [ok |-> span.ext = <<>> \/ from_str(span.ext[1]).tag # "Err",
         buf |-> SerializeFields(withSpan, fresh)]

\* one iteration of `for (index, span) in scope.enumerate()`; ok = FALSE is the
\* panic of the unwrap() on the parse result
SerializeScope(buf, index, span) ==
    LET withSpan == IF index = 0
                    THEN Append(buf, Entry("span", Quote(span.name)))
                    ELSE buf
    IN  IF span.ext = <<>>
        THEN [ok |-> TRUE, buf |-> withSpan]
        ELSE LET value == from_str(span.ext[1])
             IN  IF value.tag = "Err"
                 THEN [ok |-> FALSE, buf |-> withSpan]
                 ELSE IF value.tag = "Object"
                 THEN [ok |-> TRUE, buf |-> SerializeFields(withSpan, value.map)]
                 ELSE [ok |-> TRUE, buf |-> withSpan]

(***************************************************************************)
(* tracing_serde::SerdeMapVisitor driven by event.record: the fields are   *)
(* written in the order the event visits them; after the first entry that  *)
(* fails to encode the rest are skipped and take_serializer() is an Err.   *)
(***************************************************************************)
Encodes(f) == f[2] # "err"

Encode(f) == IF f[2] = "str" THEN Quote(f[3]) ELSE f[3]

RECURSIVE RecordFields(_, _)
RecordFields(buf, fields) ==
    IF fields = <<>> THEN [ok |-> TRUE, buf |-> buf]
    ELSE IF ~Encodes(Head(fields)) THEN [ok |-> FALSE, buf |-> buf]
    ELSE RecordFields(Append(buf, Entry(Head(fields)[1], Encode(Head(fields)))),
                      Tail(fields))

(***************************************************************************)
(* Inputs                                                                  *)
(***************************************************************************)
Levels == {"INFO", "ERROR"}
Targets == {"svc::handler"}
Clock == {"2026-01-01T00:00:00.000000000Z"}

Message == <<"message", "str", "Test">>
Ping == <<"message", "str", "ping">>
Z == <<"z", "i64", "10">>
Unencodable == <<"d", "err", "">>

EventFields == {<<Ping>>, <<Message, Z>>, <<Z, Message>>, <<Z, Unencodable, Message>>}

Events == [level : Levels, target : Targets, fields : EventFields]

NotJson == <<Junk>>
ArrayBlob == <<LBracket, Lit("1"), RBracket>>
ScalarBlob == <<Lit("5")>>
ObjX == <<Open, Pair("x", "7"), Close>>
ObjYA == <<Open, Pair("y", "9"), Pair("a", "2"), Close>>
ObjYY == <<Open, Pair("y", "1"), Pair("y", "9"), Close>>

Blobs == {NotJson, ArrayBlob, ScalarBlob, ObjX, ObjYA, ObjYY}

\* span.extensions().get::<FormattedFields<N>>(): None is <<>>, Some(b) is <<b>>
Extensions == {<<>>} \cup {<<b>> : b \in Blobs}

Names == {"child", "parent"}

Spans == [name : Names, ext : Extensions]

\* what the subscriber can hand to one call: all of it for a single caller
Workload ==
    [threads |-> {1}, events |-> Events, spans |-> Spans, depth |-> MaxDepth]

\* two callers sharing one writer
SharedWorkload ==
    [threads |-> Threads,
     events |-> {e \in Events : e.level = "INFO" /\ e.fields \in {<<Ping>>, <<Z, Unencodable, Message>>}},
     spans |-> {sp \in Spans : sp.name = "child" /\ sp.ext \in {<<NotJson>>, <<ObjX>>}},
     depth |-> 1]

(***************************************************************************)
(* State                                                                   *)
(***************************************************************************)
VARIABLES
    cfg,     \* the SolinkJsonFormat value installed as event_format
    env,     \* what the subscriber may supply (fixed during a behaviour)
    pc,      \* per caller: the statement of format_event it is about to run
    event,   \* per caller: the event argument
    s,       \* per caller: the Vec<u8> under construction
    chain,   \* per caller: the spans the scope iterator has yielded so far
    res,     \* per caller: how the call ended
    out      \* the writer: the write calls it has received, in order

vars == <<cfg, env, pc, event, s, chain, res, out>>

Running == [kind |-> "running", line |-> 0]
Ok == [kind |-> "Ok", line |-> 0]
Err == [kind |-> "Err", line |-> 111]
Panic(l) == [kind |-> "panic", line |-> l]

NoEvent == [level |-> "", target |-> "", fields |-> <<>>]

Start(workload) ==
    /\ cfg = new
    /\ env = workload
    /\ pc = [t \in Threads |-> "idle"]
    /\ event = [t \in Threads |-> NoEvent]
    /\ s = [t \in Threads |-> <<>>]
    /\ chain = [t \in Threads |-> <<>>]
    /\ res = [t \in Threads |-> Running]
    /\ out = <<>>

Init == Start(Workload)

InitShared == Start(SharedWorkload)

(***************************************************************************)
(* Building the formatter (before it is handed to the subscriber)          *)
(***************************************************************************)
Unused == \A t \in Threads : pc[t] = "idle"

WithTimestamp(b) ==
    /\ Unused
    /\ cfg' = with_timestamp(cfg, b)
    /\ UNCHANGED <<env, pc, event, s, chain, res, out>>

WithTarget(b) ==
    /\ Unused
    /\ cfg' = with_target(cfg, b)
    /\ UNCHANGED <<env, pc, event, s, chain, res, out>>

(***************************************************************************)
(* format_event, statement by statement                                    *)
(***************************************************************************)
Goto(t, label) == pc' = [pc EXCEPT ![t] = label]

Finish(t, r) ==
    /\ pc' = [pc EXCEPT ![t] = "done"]
    /\ res' = [res EXCEPT ![t] = r]

\* lines 62-66: the call starts, the buffer is created and the map opened
Begin(t, e) ==
    /\ t \in env.threads
    /\ pc[t] = "idle"
    /\ event' = [event EXCEPT ![t] = e]
    /\ s' = [s EXCEPT ![t] = <<Open>>]
    /\ Goto(t, "timestamp")
    /\ UNCHANGED <<cfg, env, chain, res, out>>

\* lines 68-73
WriteTimestamp(t, now) ==
    /\ pc[t] = "timestamp"
    /\ s' = [s EXCEPT ![t] = IF cfg.add_timestamp
                             THEN Append(@, Entry("timestamp", Quote(now)))
                             ELSE @]
    /\ Goto(t, "level")
    /\ UNCHANGED <<cfg, env, event, chain, res, out>>

\* lines 75-77
WriteLevel(t) ==
    /\ pc[t] = "level"
    /\ s' = [s EXCEPT ![t] = Append(@, Entry("level", Quote(event[t].level)))]
    /\ Goto(t, "target")
    /\ UNCHANGED <<cfg, env, event, chain, res, out>>

\* lines 79-83
WriteTarget(t) ==
    /\ pc[t] = "target"
    /\ s' = [s EXCEPT ![t] = IF cfg.add_target
                             THEN Append(@, Entry("target", Quote(event[t].target)))
                             ELSE @]
    /\ Goto(t, "record")
    /\ UNCHANGED <<cfg, env, event, chain, res, out>>

\* lines 85-87
RecordEvent(t) ==
    /\ pc[t] = "record"
    /\ LET r == RecordFields(s[t], event[t].fields)
       IN  /\ s' = [s EXCEPT ![t] = r.buf]
           /\ IF r.ok
              THEN Goto(t, "scope") /\ UNCHANGED res
              ELSE Finish(t, Panic(87))
    /\ UNCHANGED <<cfg, env, event, chain, out>>

\* mutant: the serializer writes through to the writer instead of to a buffer
ScopeSpan_Streaming(t, span) ==
    /\ pc[t] = "scope"
    /\ Len(chain[t]) < env.depth
    /\ chain' = [chain EXCEPT ![t] = Append(@, span)]
    /\ out' = Append(out, [by |-> t, text |-> s[t], ok |-> TRUE])
    /\ LET r == SerializeScope(s[t], Len(chain[t]), span)
       IN  /\ s' = [s EXCEPT ![t] = r.buf]
           /\ IF r.ok
              THEN UNCHANGED <<pc, res>>
              ELSE Finish(t, Panic(98))
    /\ UNCHANGED <<cfg, env, event>>

\* lines 89-105, one span of the scope iterator
ScopeSpan(t, span) ==
    /\ pc[t] = "scope"
    /\ Len(chain[t]) < env.depth
    /\ chain' = [chain EXCEPT ![t] = Append(@, span)]
    /\ LET r == SerializeScope(s[t], Len(chain[t]), span)
       IN  /\ s' = [s EXCEPT ![t] = r.buf]
           /\ IF r.ok
              THEN UNCHANGED <<pc, res>>
              ELSE Finish(t, Panic(98))
    /\ UNCHANGED <<cfg, env, event, out>>

\* lines 89-106: event_scope() is None, or the iterator is exhausted
ScopeEnd(t) ==
    /\ pc[t] = "scope"
    /\ Goto(t, "end")
    /\ UNCHANGED <<cfg, env, event, s, chain, res, out>>

\* mutant: the map is never ended
EndMap_NoClose(t) ==
    /\ pc[t] = "end"
    /\ Goto(t, "write_str")
    /\ UNCHANGED <<cfg, env, event, s, chain, res, out>>

\* line 108
EndMap(t) ==
    /\ pc[t] = "end"
    /\ s' = [s EXCEPT ![t] = Append(@, Close)]
    /\ Goto(t, "write_str")
    /\ UNCHANGED <<cfg, env, event, chain, res, out>>

\* mutant: the buffer is handed over in two write calls
WriteStr_Chunked(t, ok) ==
    /\ pc[t] = "write_str"
    /\ out' = out \o <<[by |-> t, text |-> SubSeq(s[t], 1, 1), ok |-> TRUE],
                       [by |-> t, text |-> SubSeq(s[t], 2, Len(s[t])), ok |-> ok]>>
    /\ IF ok
       THEN Goto(t, "writeln") /\ UNCHANGED res
       ELSE Finish(t, Panic(110))
    /\ UNCHANGED <<cfg, env, event, s, chain>>

\* line 110: one write_str of the whole buffer; its error is unwrapped
WriteStr(t, ok) ==
    /\ pc[t] = "write_str"
    /\ out' = Append(out, [by |-> t, text |-> s[t], ok |-> ok])
    /\ IF ok
       THEN Goto(t, "writeln") /\ UNCHANGED res
       ELSE Finish(t, Panic(110))
    /\ UNCHANGED <<cfg, env, event, s, chain>>

\* line 111: writeln!(writer) is the value of the function
WriteLn(t, ok) ==
    /\ pc[t] = "writeln"
    /\ out' = Append(out, [by |-> t, text |-> Terminator, ok |-> ok])
    /\ Finish(t, IF ok THEN Ok ELSE Err)
    /\ UNCHANGED <<cfg, env, event, s, chain>>

Next ==
    \/ \E b \in BOOLEAN : WithTimestamp(b)
    \/ \E b \in BOOLEAN : WithTarget(b)
    \/ \E t \in Threads :
        \/ \E e \in env.events : Begin(t, e)
        \/ \E now \in Clock : WriteTimestamp(t, now)
        \/ WriteLevel(t)
        \/ WriteTarget(t)
        \/ RecordEvent(t)
        \/ \E span \in env.spans : ScopeSpan(t, span)
        \/ ScopeEnd(t)
        \/ EndMap(t)
        \/ \E ok \in BOOLEAN : WriteStr(t, ok)
        \/ \E ok \in BOOLEAN : WriteLn(t, ok)

Spec == Init /\ [][Next]_vars

SpecShared == InitShared /\ [][Next]_vars

(***************************************************************************)
(* Vocabulary of the properties                                            *)
(***************************************************************************)
\* the map has been ended: the buffer holds the whole object text
Built(t) ==
    \/ pc[t] \in {"write_str", "writeln"}
    \/ pc[t] = "done" /\ res[t].line \notin {87, 98}

\* the entries of a finished buffer, without the braces
Body(buf) == SubSeq(buf, 2, Len(buf) - 1)

KeysOf(entries) == [i \in 1..Len(entries) |-> entries[i][2]]

\* the write calls the writer received from one call of format_event
Writes(t) == SelectSeq(out, LAMBDA w : w.by = t)

IsObjectBlob(sp) == sp.ext # <<>> /\ from_str(sp.ext[1]).tag = "Object"

\* the pairs a span contributes: its parsed object, nothing otherwise
ParsedFields(sp) == IF IsObjectBlob(sp) THEN from_str(sp.ext[1]).map ELSE <<>>

RECURSIVE ChainFields(_)
ChainFields(ch) ==
    IF ch = <<>> THEN <<>> ELSE ParsedFields(Head(ch)) \o ChainFields(Tail(ch))

RECURSIVE SumSizes(_)
SumSizes(ch) ==
    IF ch = <<>> THEN 0 ELSE Len(ParsedFields(Head(ch))) + SumSizes(Tail(ch))

FieldNames(e) == [i \in 1..Len(e.fields) |-> e.fields[i][1]]

\* number of entries written before the span key
TopLen(c, e) ==
    (IF c.add_timestamp THEN 1 ELSE 0) + 1 + (IF c.add_target THEN 1 ELSE 0)
        + Len(e.fields)

\* the entries written for the spans, after the span key
ScopePart(t) ==
    SubSeq(Body(s[t]), TopLen(cfg, event[t]) + 2, Len(Body(s[t])))

PairsAsEntries(q) == [i \in 1..Len(q) |-> Entry(q[i][1], q[i][2])]

----------------------------------------------------------------------------
\* C1: for every configuration, event and chain whose blobs are JSON objects,
\* the keys of the finished object are, in this order: timestamp (if enabled),
\* level, target (if enabled), the event's fields in recorded order, span (if
\* the chain is non-empty), then the fields of each span, innermost first.
ExpectedKeys(c, e, ch) ==
    (IF c.add_timestamp THEN <<"timestamp">> ELSE <<>>)
        \o <<"level">>
        \o (IF c.add_target THEN <<"target">> ELSE <<>>)
        \o FieldNames(e)
        \o (IF ch # <<>> THEN <<"span">> ELSE <<>>)
        \o KeysOf(PairsAsEntries(ChainFields(ch)))

AllObjects(ch) == \A i \in 1..Len(ch) : ch[i].ext = <<>> \/ IsObjectBlob(ch[i])

C1_KeyOrder ==
    \A t \in Threads :
        Built(t) /\ AllObjects(chain[t])
            => KeysOf(Body(s[t])) = ExpectedKeys(cfg, event[t], chain[t])

\* spans parent{x=7} > child{y=9}, event z=10 "Test", timestamp off
C1_Witness ==
    \E t \in Threads :
        /\ Built(t)
        /\ ~cfg.add_timestamp /\ cfg.add_target
        /\ event[t].fields = <<Message, Z>>
        /\ Len(chain[t]) = 2
        /\ chain[t][1].name = "child" /\ chain[t][2] = [name |-> "parent", ext |-> <<ObjX>>]
        /\ KeysOf(Body(s[t])) = <<"level", "target", "message", "z", "span", "y", "x">>

----------------------------------------------------------------------------
\* C2: a span whose blob is not a JSON object (not JSON at all, or an array
\* or a scalar) does not make format_event fail: it contributes no entries
\* and the event and the other spans are written as without it.
C2_BadBlobIsSkipped ==
    \A t \in Threads :
        /\ res[t] # Panic(98)
        /\ Built(t) => ScopePart(t) = PairsAsEntries(ChainFields(chain[t]))

----------------------------------------------------------------------------
\* C3: when the writer reports an error on a write of format_event (the JSON
\* text or the terminator), the call returns that error: it does not panic.
C3_WriterErrorIsReturned ==
    \A t \in Threads :
        (\E i \in 1..Len(out) : out[i].by = t /\ ~out[i].ok)
            => res[t].kind # "panic"

----------------------------------------------------------------------------
\* C4: the line of a call carries the span key exactly once when the chain is
\* non-empty and not at all when it is empty; its value is the name of the
\* innermost span, also when that span has no blob or a malformed one.
SpanValues(text) ==
    LET sel == SelectSeq(text, LAMBDA f : f[1] = "entry" /\ f[2] = "span")
    IN  [i \in 1..Len(sel) |-> sel[i][3]]

WriterFailed(t) == \E i \in 1..Len(out) : out[i].by = t /\ ~out[i].ok

C4_SpanOnceInnermost ==
    \A t \in Threads :
        pc[t] = "done" /\ ~WriterFailed(t) /\ res[t].line # 87
            => /\ Writes(t) # <<>>
               /\ SpanValues(Writes(t)[1].text) =
                     IF chain[t] = <<>> THEN <<>> ELSE <<Quote(chain[t][1].name)>>

----------------------------------------------------------------------------
\* C5: the entries written after the span key are the concatenation, innermost
\* span first, of each span's parsed object; equal keys of different spans are
\* all written, and the number of entries is the sum of the objects' sizes.
C5_Concatenation ==
    \A t \in Threads :
        Built(t) /\ chain[t] # <<>>
            => /\ Body(s[t])[TopLen(cfg, event[t]) + 1][2] = "span"
               /\ ScopePart(t) = PairsAsEntries(ChainFields(chain[t]))
               /\ Len(ScopePart(t)) = SumSizes(chain[t])

\* child {"y":1,"y":9} inside parent {"y":9,"a":2}: y is written for both
C5_Witness ==
    \E t \in Threads :
        /\ Built(t)
        /\ Len(chain[t]) = 2
        /\ chain[t][1].ext = <<ObjYY>> /\ chain[t][2].ext = <<ObjYA>>
        /\ KeysOf(ScopePart(t)) = <<"y", "a", "y">>

----------------------------------------------------------------------------
\* C6: a call that returns Ok has handed the writer exactly one JSON object
\* (opened once, closed once) and then exactly one terminator, nothing else;
\* also with no spans and with timestamp and target disabled.
Count(text, f) == Len(SelectSeq(text, LAMBDA x : x = f))

C6_OneObjectOneTerminator ==
    \A t \in Threads :
        res[t] = Ok
            => /\ Len(Writes(t)) = 2
               /\ Writes(t)[2].text = Terminator
               /\ LET text == Writes(t)[1].text
                  IN  /\ Head(text) = Open /\ text[Len(text)] = Close
                      /\ Count(text, Open) = 1 /\ Count(text, Close) = 1
                      /\ \A i \in 2..(Len(text) - 1) : text[i][1] = "entry"

\* {"level":"INFO","message":"ping"} and the terminator
C6_Witness ==
    \E t \in Threads :
        /\ res[t] = Ok
        /\ chain[t] = <<>>
        /\ ~cfg.add_timestamp /\ ~cfg.add_target
        /\ Writes(t)[1].text =
              <<Open, Entry("level", "\"INFO\""), Entry("message", "\"ping\""), Close>>
        /\ Writes(t)[2].text = Terminator

----------------------------------------------------------------------------
\* C7: new() enables both flags and a builder step changes one flag only; the
\* formatter's timestamp entry is present iff add_timestamp and its target
\* entry iff add_target; the line of a call is the line the same event, clock
\* reading and chain give with both flags on, minus the disabled entries.
AllOnBody(e, now, ch) ==
    <<Entry("timestamp", Quote(now)), Entry("level", Quote(e.level)),
      Entry("target", Quote(e.target))>>
        \o [i \in 1..Len(e.fields) |-> Entry(e.fields[i][1], Encode(e.fields[i]))]
        \o (IF ch # <<>> THEN <<Entry("span", Quote(ch[1].name))>> ELSE <<>>)
        \o PairsAsEntries(ChainFields(ch))

\* the entries of `body` except those at the positions in `drop`
Without(body, drop) ==
    LET keep == {i \in 1..Len(body) : i \notin drop}
        nth(j) == CHOOSE i \in keep : Cardinality({k \in keep : k < i}) = j - 1
    IN  [j \in 1..Cardinality(keep) |-> body[nth(j)]]

Disabled(c) ==
    (IF c.add_timestamp THEN {} ELSE {1}) \cup (IF c.add_target THEN {} ELSE {3})

C7_Line ==
    \A t \in Threads :
        Built(t)
            => /\ cfg.add_timestamp <=> Body(s[t])[1][2] = "timestamp"
               /\ cfg.add_target <=>
                     Body(s[t])[IF cfg.add_timestamp THEN 3 ELSE 2][2] = "target"
               /\ \E now \in Clock :
                     Body(s[t]) = Without(AllOnBody(event[t], now, chain[t]), Disabled(cfg))

C7_OneFlagPerStep ==
    cfg' # cfg =>
        (cfg'.add_timestamp = cfg.add_timestamp) # (cfg'.add_target = cfg.add_target)

C7_Flags ==
    /\ cfg.add_timestamp /\ cfg.add_target
    /\ []C7_Line
    /\ [][C7_OneFlagPerStep]_vars

\* timestamp off, target on, a call with a span has finished building
C7_Witness ==
    \E t \in Threads :
        /\ Built(t)
        /\ ~cfg.add_timestamp /\ cfg.add_target
        /\ chain[t] # <<>>
        /\ KeysOf(Body(s[t]))[1] = "level" /\ KeysOf(Body(s[t]))[2] = "target"

----------------------------------------------------------------------------
\* C8: a call whose build fails before the map is ended (a field value that
\* does not encode, a blob that does not parse) has handed nothing to the
\* writer; at every moment the writer has received from a call either
\* nothing or the complete object text, never a prefix of it.
C8_NothingOrWhole ==
    \A t \in Threads :
        /\ ~Built(t) => Writes(t) = <<>>
        /\ \A i \in 1..Len(Writes(t)) :
              \/ Writes(t)[i].text = Terminator
              \/ /\ Writes(t)[i].text = s[t]
                 /\ Head(s[t]) = Open /\ s[t][Len(s[t])] = Close

\* the parse of a blob panicked after entries were already in the buffer
C8_Witness ==
    \E t \in Threads :
        /\ res[t] = Panic(98)
        /\ Len(s[t]) > 2
        /\ Writes(t) = <<>>

----------------------------------------------------------------------------
\* C9 (as stated): within one span the pairs are written in the order in
\* which the keys appear in the blob text, each with the value it has there.
TextPairs(sp) ==
    IF IsObjectBlob(sp)
    THEN [i \in 1..(Len(sp.ext[1]) - 2) |-> <<sp.ext[1][i + 1][2], sp.ext[1][i + 1][3]>>]
    ELSE <<>>

RECURSIVE ChainTextPairs(_)
ChainTextPairs(ch) ==
    IF ch = <<>> THEN <<>> ELSE TextPairs(Head(ch)) \o ChainTextPairs(Tail(ch))

C9_BlobOrder ==
    \A t \in Threads :
        Built(t) => ScopePart(t) = PairsAsEntries(ChainTextPairs(chain[t]))

\* C9 (amended): within one span the pairs are written in ascending key
\* order, one entry per distinct key, with the value of the key's last
\* occurrence in the blob text.
SortedLastWins(q) ==
    LET keys == {q[i][1] : i \in 1..Len(q)}
        last(k) == CHOOSE i \in 1..Len(q) :
                      q[i][1] = k /\ \A j \in (i + 1)..Len(q) : q[j][1] # k
        nth(n) == CHOOSE k \in keys :
                      Cardinality({k2 \in keys : KeyRank(k2) < KeyRank(k)}) = n - 1
    IN  [n \in 1..Cardinality(keys) |-> <<nth(n), q[last(nth(n))][2]>>]

RECURSIVE ChainSorted(_)
ChainSorted(ch) ==
    IF ch = <<>> THEN <<>>
    ELSE SortedLastWins(TextPairs(Head(ch))) \o ChainSorted(Tail(ch))

C9_SortedKeyOrder ==
    \A t \in Threads :
        Built(t) => ScopePart(t) = PairsAsEntries(ChainSorted(chain[t]))

\* the blob {"y":9,"a":2} was written as a then y
C9_Witness ==
    \E t \in Threads :
        /\ Built(t)
        /\ Len(chain[t]) = 1 /\ chain[t][1].ext = <<ObjYA>>
        /\ ScopePart(t) = <<Entry("a", "2"), Entry("y", "9")>>

----------------------------------------------------------------------------
\* C10 (as stated): with two calls running against the same writer, the
\* object text and the terminator of one event are never separated by bytes
\* of the other event.
C10_LineNotSplit ==
    \A i, j \in 1..Len(out) :
        i < j /\ out[i].by = out[j].by /\ out[i].ok /\ out[j].ok
            => \A k \in (i + 1)..(j - 1) : ~out[k].ok \/ out[k].by = out[i].by

\* C10 (amended): a call hands the writer the whole object text in one write
\* call and then the terminator in a second write call; the object text is
\* never split, the terminator is a write of its own.
C10_TwoWrites ==
    \A t \in Threads :
        LET w == Writes(t)
        IN  /\ Len(w) <= 2
            /\ Len(w) >= 1 => w[1].text = s[t] /\ s[t][Len(s[t])] = Close
            /\ Len(w) = 2 => w[1].ok /\ w[2].text = Terminator

\* the other call's object text lies between an object text and its terminator
C10_Witness ==
    /\ Len(out) = 4
    /\ out[1].by = 1 /\ out[2].by = 2 /\ out[3].by = 1 /\ out[4].by = 2
    /\ out[3].text = Terminator /\ out[4].text = Terminator
    /\ \A i \in 1..4 : out[i].ok

====
